---- MODULE Spec2Model ----
(***************************************************************************)
(* A model of the SSE helper (src/src/modules/sse/sseEventStructure.js)    *)
(* and of the time-feed controller that uses it                            *)
(* (src/src/controllers/sseSendTimeController.js).                         *)
(*                                                                         *)
(* The helper's functions are operators on a record S that holds the       *)
(* module state (clients, resIndex), the response objects' state (ended,   *)
(* listeners), the side effects of the call in progress (events), the      *)
(* pending exception (exc) and the value returned (ret).  An action is one *)
(* whole call of a function, or one event-loop callback.                   *)
(***************************************************************************)
EXTENDS Integers, Sequences, FiniteSets, TLC

(* ---------------------------- bounds ---------------------------------- *)
NumHandles == 2
NumSessionIds == 1
MaxTime == 1
MaxRegs == 2
\* the number of addClient calls in a history of repeated registrations
MaxReregs == 3
MaxNotes == 3
\* the number of frames that can wait in the page's connection
MaxInbox == 2
\* the number of calls of shutdown()
MaxShutdownCalls == 2
\* the number of pending callbacks followed after a shutdown
DrainDepth == 3

(* ------------------------- program constants -------------------------- *)
DefaultMaxAgeMs == 3600000

(* ------------------------------ values -------------------------------- *)
\* the JavaScript value undefined, as a Map key, an argument or a result
Undefined == "<undefined>"
\* no entry in the WeakMap (get then yields undefined)
Absent == "<absent>"
\* a record whose res field is missing, one whose res getter throws
NoRes == "<no res>"
BadRes == "<res throws>"

Handles == {"h" \o ToString(i) : i \in 1..NumHandles}
SessionIds == {"s" \o ToString(i) : i \in 1..NumSessionIds}
Suffixes == {"a3f9c1", "07be42"}
Times == 0..MaxTime

Truthy(v) == v # Undefined /\ v # ""
IsHandle(res) == res \in Handles

(* ---------------------------- payloads -------------------------------- *)
\* a payload is an object with one string field, a cyclic object, or undefined
ObjPayload(k, v) == [kind |-> "obj", key |-> k, val |-> v]
CircularPayload == [kind |-> "circular", key |-> "self", val |-> ""]
UndefinedPayload == [kind |-> "undefined", key |-> "", val |-> ""]
ShutdownPayload == ObjPayload("type", "shutdown")
TimePayload(t) == ObjPayload("utc", "t" \o ToString(t))
FallbackPayload == ObjPayload("error", "unserializable payload")
Payloads == {ObjPayload("event", "x"), CircularPayload}

\* JSON.stringify throws on a cyclic structure
StringifyThrows(p) == p.kind = "circular"
\* JSON.stringify of a value it does not throw on; undefined yields undefined,
\* which the template literal renders as the text undefined
JSONStringify(p) ==
  IF p.kind = "undefined" THEN "undefined"
  ELSE "{\"" \o p.key \o "\":\"" \o p.val \o "\"}"

safeSerialize(data) ==
  IF StringifyThrows(data) THEN JSONStringify(FallbackPayload)
  ELSE JSONStringify(data)

formatSSEMessage(payload) == "data: " \o safeSerialize(payload) \o "\n\n"

(* --------------------------- the state -------------------------------- *)
VARIABLES
  clients,     \* the Map clientId -> entry, as the sequence of its entries in insertion order
  resIndex,    \* the WeakMap res -> clientId
  ended,       \* res.writableEnded of every response object
  listeners,   \* number of once("close") listeners attached to every response object
  closed,      \* the transport has emitted close for the response object
  syncClose,   \* res.end() emits close synchronously (the tests' MockResponse) or not (node)
  timer,       \* the controller's interval per connection: "none", "armed", "cleared"
  now,         \* Date.now()
  regs,        \* number of addClient calls made so far
  eventSource, \* browser: readyState of the EventSource of the subscription
  closedFlag,  \* browser: the variable closed of createSSEObservable
  observer,    \* browser: what the subscribed observer's callbacks do
  received,    \* browser: the notifications the observer has received
  page,        \* browser: the time page, its EventSource and the connection it uses
  app          \* app.js: shutdownInProgress, the calls of shutdown(), the hooks run

serverVars == <<clients, resIndex, ended, listeners, closed, syncClose, timer, now, regs>>
clientVars == <<eventSource, closedFlag, observer, received>>
vars == <<clients, resIndex, ended, listeners, closed, syncClose, timer, now, regs,
          eventSource, closedFlag, observer, received, page, app>>

Entry(id, res, t) == [id |-> id, res |-> res, createdAt |-> t]

\* the state a call of the helper starts in
Cur ==
  [clients |-> clients, resIndex |-> resIndex, ended |-> ended,
   listeners |-> listeners, events |-> <<>>, exc |-> FALSE, ret |-> Undefined]

(* ---------------------- Map and WeakMap operations -------------------- *)
IndexOf(cs, id) ==
  IF \E i \in 1..Len(cs) : cs[i].id = id
  THEN CHOOSE i \in 1..Len(cs) : cs[i].id = id
  ELSE 0

MapHas(cs, id) == IndexOf(cs, id) # 0
MapGet(cs, id) == cs[IndexOf(cs, id)]

\* Map.set keeps the position of a key that is present and appends a new key
MapSet(cs, e) ==
  IF MapHas(cs, e.id) THEN [cs EXCEPT ![IndexOf(cs, e.id)] = e] ELSE Append(cs, e)

MapDelete(cs, id) == SelectSeq(cs, LAMBDA e : e.id # id)

MapKeys(cs) == {cs[i].id : i \in 1..Len(cs)}

WeakGet(ri, res) == IF IsHandle(res) /\ ri[res] # Absent THEN ri[res] ELSE Undefined

Log(S, kind, target, text) == [S EXCEPT !.events = Append(@, <<kind, target, text>>)]

\* catch (e) { /* ignore */ }
Caught(S) == [S EXCEPT !.exc = FALSE]

\* a deletion that leaves a marker entry in the Map in place of the entry
ClientsDelete_tombstone(S, id) ==
  IF MapHas(S.clients, id)
  THEN Log([S EXCEPT !.clients = MapSet(MapDelete(@, id), [id |-> "removed", res |-> NoRes,
                                                         createdAt |-> 0])],
           "delete", id, "")
  ELSE S

\* clients.delete(id), logged when it removes an entry
ClientsDelete(S, id) ==
  IF MapHas(S.clients, id)
  THEN Log([S EXCEPT !.clients = MapDelete(@, id)], "delete", id, "")
  ELSE S

getClientCount(S) == Len(S.clients)

(* ------------------- the response object (res) ------------------------ *)
RECURSIVE removeClient(_, _, _)
RECURSIVE RunListeners(_, _, _, _)

\* res.emit("close"): the once-listeners are detached, then called in order;
\* each of them is the closure () => removeClient(res) of addClient
EmitClose(S, res, ef) ==
  RunListeners([S EXCEPT !.listeners[res] = 0], res, S.listeners[res], ef)

RunListeners(S, res, n, ef) ==
  IF n = 0 \/ S.exc THEN S
  ELSE RunListeners(removeClient(Log(S, "listener", res, ""), res, ef), res, n - 1, ef)

\* res.end(): throws for the responses of ef (the tests replace end by a function
\* that throws); otherwise sets writableEnded, and the tests' MockResponse emits
\* close before it returns
ResEnd(S, res, ef) ==
  IF res \in ef THEN [Log(S, "endFail", res, "") EXCEPT !.exc = TRUE]
  ELSE LET S1 == [Log(S, "end", res, "") EXCEPT !.ended[res] = TRUE]
       IN  IF syncClose THEN EmitClose(S1, res, ef) ELSE S1

(* ------------------------ removal ------------------------------------- *)
removeClient(S, res, ef) ==
  LET clientId == WeakGet(S.resIndex, res) IN
  IF ~Truthy(clientId) THEN S
  ELSE
    LET i  == IndexOf(S.clients, clientId)
        er == IF i = 0 THEN NoRes ELSE S.clients[i].res
        \* try { if (!entry.res.writableEnded) entry.res.end(); } catch { }
        S1 == IF i # 0 /\ IsHandle(er) /\ ~S.ended[er] THEN Caught(ResEnd(S, er, ef)) ELSE S
        S2 == ClientsDelete(S1, clientId)
    IN  [S2 EXCEPT !.resIndex[res] = Absent]

\* a removeClientById that gives up when ending the response throws
removeClientById_abortsOnThrow(S, clientId, ef) ==
  LET i == IndexOf(S.clients, clientId) IN
  IF i = 0 THEN S
  ELSE
    LET er == S.clients[i].res
        S1 == IF IsHandle(er) /\ ~S.ended[er] THEN Caught(ResEnd(S, er, ef)) ELSE S
    IN  IF IsHandle(er) /\ ~S.ended[er] /\ er \in ef THEN S1
        ELSE IF IsHandle(er) THEN [ClientsDelete(S1, clientId) EXCEPT !.resIndex[er] = Absent]
        ELSE ClientsDelete(S1, clientId)

removeClientById(S, clientId, ef) ==
  LET i == IndexOf(S.clients, clientId) IN
  IF i = 0 THEN S
  ELSE
    LET er == S.clients[i].res
        \* try { if (entry.res && !entry.res.writableEnded) entry.res.end(); } catch { }
        S1 == IF IsHandle(er) /\ ~S.ended[er] THEN Caught(ResEnd(S, er, ef)) ELSE S
        S2 == ClientsDelete(S1, clientId)
    IN  \* try { if (entry.res) resIndex.delete(entry.res); } catch { }
        IF IsHandle(er) THEN [S2 EXCEPT !.resIndex[er] = Absent] ELSE S2

(* ------------------------ registration -------------------------------- *)
GeneratedId(t, r) == "anon-" \o ToString(t) \o "-" \o r

\* try { res.once("close", () => removeClient(res)); } catch { }
\* att is false when res has no once method or once throws
AttachClose(S, res, att) ==
  IF att /\ IsHandle(res) THEN [S EXCEPT !.listeners[res] = @ + 1] ELSE S

\* addClient(arg1, maybeRes, maybeMeta) at time t, the random suffix being r
addClient(S, arg1, maybeRes, t, r, att) ==
  IF ~Truthy(maybeRes)
  THEN \* addClient(res): generate an id
    LET res == arg1
        clientId == GeneratedId(t, r)
        S1 == [S EXCEPT !.clients = MapSet(@, Entry(clientId, res, t)),
                        !.resIndex[res] = clientId]
    IN  [AttachClose(S1, res, att) EXCEPT !.ret = clientId]
  ELSE
    LET clientId == arg1
        res == maybeRes
        existing == WeakGet(S.resIndex, res)
        S1 == IF Truthy(existing) /\ existing # clientId
              THEN [S EXCEPT !.clients = MapDelete(@, existing)]
              ELSE S
        S2 == [S1 EXCEPT !.clients = MapSet(@, Entry(clientId, res, t)),
                         !.resIndex[res] = clientId]
    IN  [AttachClose(S2, res, att) EXCEPT !.ret = clientId]

(* ------------------------ writing ------------------------------------- *)
\* the value writeToClient returns: res.write throws for the responses of wf;
\* reading writableEnded of a missing res throws inside the try
WriteOk(S, res, wf) == IsHandle(res) /\ ~S.ended[res] /\ res \notin wf

\* a writeToClient without the test of writableEnded
writeToClient_ignoresEnded(S, res, formattedMessage, wf) ==
  IF ~IsHandle(res) THEN S
  ELSE IF res \in wf THEN Log(S, "writeFail", res, formattedMessage)
  ELSE Log(S, "write", res, formattedMessage)

\* the effects of writeToClient
writeToClient(S, res, formattedMessage, wf) ==
  IF ~IsHandle(res) \/ S.ended[res] THEN S
  ELSE IF res \in wf THEN Log(S, "writeFail", res, formattedMessage)
  ELSE Log(S, "write", res, formattedMessage)

\* a send that writes without looking at writableEnded
send_unguarded(S, res, payload, wf, ef) ==
  IF ~IsHandle(res) THEN S
  ELSE
    LET formatted == formatSSEMessage(payload) IN
    IF res \in wf
    THEN removeClient(Caught(ResEnd(Log(S, "writeFail", res, formatted), res, ef)), res, ef)
    ELSE Log(S, "write", res, formatted)

send(S, res, payload, wf, ef) ==
  IF ~IsHandle(res) \/ S.ended[res] THEN S
  ELSE
    LET formatted == formatSSEMessage(payload)
        S1 == writeToClient(S, res, formatted, wf)
    IN  IF WriteOk(S, res, wf) THEN S1
        ELSE removeClient(Caught(ResEnd(S1, res, ef)), res, ef)

\* a sendToClient that reports whether the write succeeded
sendToClient_reportsWrite(S, clientId, payload, wf, ef) ==
  LET i == IndexOf(S.clients, clientId) IN
  IF i = 0 THEN [S EXCEPT !.ret = "false"]
  ELSE IF S.clients[i].res = BadRes THEN [S EXCEPT !.exc = TRUE]
  ELSE IF S.clients[i].res = NoRes THEN [S EXCEPT !.ret = "false"]
  ELSE IF S.ended[S.clients[i].res]
       THEN [removeClientById(S, clientId, ef) EXCEPT !.ret = "false"]
  ELSE [send(S, S.clients[i].res, payload, wf, ef)
          EXCEPT !.ret = IF WriteOk(S, S.clients[i].res, wf) THEN "true" ELSE "false"]

\* a sendToClient that leaves the record of an ended response in the Map
sendToClient_keepsEnded(S, clientId, payload, wf, ef) ==
  LET i == IndexOf(S.clients, clientId) IN
  IF i = 0 THEN [S EXCEPT !.ret = "false"]
  ELSE IF S.clients[i].res = BadRes THEN [S EXCEPT !.exc = TRUE]
  ELSE IF S.clients[i].res = NoRes THEN [S EXCEPT !.ret = "false"]
  ELSE IF S.ended[S.clients[i].res] THEN [S EXCEPT !.ret = "false"]
  ELSE [send(S, S.clients[i].res, payload, wf, ef) EXCEPT !.ret = "true"]

sendToClient(S, clientId, payload, wf, ef) ==
  LET i == IndexOf(S.clients, clientId) IN
  IF i = 0 THEN [S EXCEPT !.ret = "false"]
  ELSE IF S.clients[i].res = BadRes THEN [S EXCEPT !.exc = TRUE]
  ELSE IF S.clients[i].res = NoRes THEN [S EXCEPT !.ret = "false"]
  ELSE IF S.ended[S.clients[i].res]
       THEN [removeClientById(S, clientId, ef) EXCEPT !.ret = "false"]
  ELSE [send(S, S.clients[i].res, payload, wf, ef) EXCEPT !.ret = "true"]

(* ------------------------ broadcast ----------------------------------- *)
RECURSIVE BroadcastWrite(_, _, _, _, _)
\* the first loop of broadcast over the entries from position i on: the write
\* changes no Map, so the entries are those of the call's start
BroadcastWrite(S, i, formatted, wf, toRemove) ==
  IF i > Len(S.clients) \/ S.exc THEN [st |-> S, toRemove |-> toRemove]
  ELSE
    LET e == S.clients[i] IN
    IF e.res = BadRes
    THEN [st |-> [S EXCEPT !.exc = TRUE], toRemove |-> toRemove]
    ELSE BroadcastWrite(writeToClient(S, e.res, formatted, wf), i + 1, formatted, wf,
                        IF WriteOk(S, e.res, wf) THEN toRemove ELSE Append(toRemove, e.id))

RECURSIVE RemoveAll(_, _, _)
RemoveAll(S, ids, ef) ==
  IF ids = <<>> \/ S.exc THEN S
  ELSE RemoveAll(removeClientById(S, Head(ids), ef), Tail(ids), ef)

RECURSIVE RemoveWhileWriting(_, _, _, _, _)
RemoveWhileWriting(S, todo, formatted, wf, ef) ==
  IF todo = <<>> \/ S.exc THEN S
  ELSE
    LET i == IndexOf(S.clients, Head(todo)) IN
    IF i = 0 THEN RemoveWhileWriting(S, Tail(todo), formatted, wf, ef)
    ELSE
      LET e == S.clients[i]
          S1 == writeToClient(S, e.res, formatted, wf)
      IN  RemoveWhileWriting(
            IF WriteOk(S, e.res, wf) THEN S1 ELSE removeClientById(S1, e.id, ef),
            Tail(todo), formatted, wf, ef)

\* a broadcast that removes a record as soon as its write has failed
broadcast_removesInLoop(S, payload, wf, ef) ==
  RemoveWhileWriting(S, [i \in 1..Len(S.clients) |-> S.clients[i].id],
                     formatSSEMessage(payload), wf, ef)

broadcast(S, payload, wf, ef) ==
  LET formatted == formatSSEMessage(payload)
      w == BroadcastWrite(S, 1, formatted, wf, <<>>)
  IN  RemoveAll(w.st, w.toRemove, ef)

RECURSIVE CloseLoop(_, _, _, _, _)
\* the loop of broadcastAndClose: todo holds the keys the Map iterator has not
\* reached; an entry deleted before the iterator reaches it is not visited
CloseLoop(S, todo, formatted, wf, ef) ==
  IF todo = <<>> \/ S.exc THEN S
  ELSE
    LET i == IndexOf(S.clients, Head(todo)) IN
    IF i = 0 THEN CloseLoop(S, Tail(todo), formatted, wf, ef)
    ELSE
      LET res == S.clients[i].res IN
      IF ~IsHandle(res) THEN [S EXCEPT !.exc = TRUE]
      ELSE IF S.ended[res] THEN CloseLoop(S, Tail(todo), formatted, wf, ef)
      ELSE CloseLoop(Caught(ResEnd(writeToClient(S, res, formatted, wf), res, ef)),
                     Tail(todo), formatted, wf, ef)

\* a shutdown that drops only the records of the responses it managed to end
broadcastAndClose_dropEnded(S, payload, wf, ef) ==
  LET formatted == formatSSEMessage(payload)
      S1 == CloseLoop(S, [i \in 1..Len(S.clients) |-> S.clients[i].id], formatted, wf, ef)
  IN  IF S1.exc THEN S1
      ELSE [S1 EXCEPT !.clients = SelectSeq(@, LAMBDA e : ~S1.ended[e.res])]

broadcastAndClose(S, payload, wf, ef) ==
  LET formatted == formatSSEMessage(payload)
      S1 == CloseLoop(S, [i \in 1..Len(S.clients) |-> S.clients[i].id], formatted, wf, ef)
  IN  IF S1.exc THEN S1 ELSE [S1 EXCEPT !.clients = <<>>]

(* ------------------------ pruning ------------------------------------- *)
\* the condition of cleanupStaleClients on an entry whose res can be read
IsStale(S, e, maxAgeMs, t) ==
  \/ e.res = NoRes
  \/ S.ended[e.res]
  \/ (maxAgeMs # 0 /\ t - e.createdAt > maxAgeMs)

RECURSIVE CleanupLoop(_, _, _, _, _)
\* the loop over Array.from(clients.entries()), a copy made at the call's start
CleanupLoop(S, entries, maxAgeMs, t, ef) ==
  IF entries = <<>> \/ S.exc THEN S
  ELSE
    LET e == Head(entries)
        S1 == IF e.res = BadRes \/ IsStale(S, e, maxAgeMs, t)
              THEN removeClientById(S, e.id, ef)
              ELSE S
    IN  CleanupLoop(S1, Tail(entries), maxAgeMs, t, ef)

cleanupStaleClients(S, maxAgeMs, t, ef) == CleanupLoop(S, S.clients, maxAgeMs, t, ef)

(* ------------- the connection of the time page ------------------------ *)
\* the texts a frame of the server can carry in its data field
FrameData ==
  {JSONStringify(p) : p \in {TimePayload(t) : t \in Times} \cup Payloads
                            \cup {ShutdownPayload, FallbackPayload, UndefinedPayload}}

\* the EventSource parser: the data of the message event a frame becomes
EventData(frame) ==
  IF \E d \in FrameData : frame = "data: " \o d \o "\n\n"
  THEN CHOOSE d \in FrameData : frame = "data: " \o d \o "\n\n"
  ELSE frame

\* the end of the response stream, as the page's connection carries it
Eof == "<eof>"

RECURSIVE Deliver(_, _)
\* what the response object of the page's connection is made to do reaches the
\* browser in order: a write as a frame, end() as the end of the stream; a
\* connection the page has closed carries nothing
Deliver(pg, events) ==
  IF events = <<>> THEN pg
  ELSE
    LET e == Head(events)
        pg1 == IF pg.handle # e[2] \/ pg.state = "closed" \/ Eof \in {pg.inbox[i] : i \in 1..Len(pg.inbox)}
               THEN pg
               ELSE IF e[1] = "write" THEN [pg EXCEPT !.inbox = Append(@, EventData(e[3]))]
               ELSE IF e[1] = "end" THEN [pg EXCEPT !.inbox = Append(@, Eof)]
               ELSE pg
    IN  Deliver(pg1, Tail(events))

(* ------------------------ the actions --------------------------------- *)
\* the call returns (or throws): the state it leaves, pg being the page
CommitCall(S, pg) ==
  /\ clients' = S.clients
  /\ resIndex' = S.resIndex
  /\ ended' = S.ended
  /\ listeners' = S.listeners
  /\ page' = Deliver(pg, S.events)
  /\ UNCHANGED clientVars

\* a call made outside shutdown()
CommitTo(S, pg) == CommitCall(S, pg) /\ UNCHANGED app

Commit(S) == CommitTo(S, page)

Init ==
  /\ clients = <<>>
  /\ resIndex = [h \in Handles |-> Absent]
  /\ ended = [h \in Handles |-> FALSE]
  /\ listeners = [h \in Handles |-> 0]
  /\ closed = [h \in Handles |-> FALSE]
  /\ syncClose \in BOOLEAN
  /\ timer = [h \in Handles |-> "none"]
  /\ now = 0
  /\ regs = 0
  /\ eventSource = "none"
  /\ closedFlag = FALSE
  /\ observer = "none"
  /\ received = <<>>
  /\ page = [state |-> "none", handle |-> "none", inbox |-> <<>>, attempts |-> 0]
  /\ app = [shutdownInProgress |-> FALSE,
            calls |-> [c \in 1..MaxShutdownCalls |-> "idle"],
            hookRuns |-> 0]

\* a response object no one has used yet
Fresh(h) ==
  /\ timer[h] = "none" /\ ~ended[h] /\ ~closed[h] /\ listeners[h] = 0
  /\ resIndex[h] = Absent
  /\ \A i \in 1..Len(clients) : clients[i].res # h

HandleNo(h) == CHOOSE i \in 1..NumHandles : h = "h" \o ToString(i)

\* response objects are created in order: the next one to come into use is the
\* unused one of the least number (they are interchangeable until used)
Usable(h) == Fresh(h) => \A g \in Handles : Fresh(g) => HandleNo(h) <= HandleNo(g)

\* addClient(clientId, res, meta), clientId a session id or undefined
Register(id, h, att) ==
  /\ Usable(h)
  /\ regs < MaxRegs
  /\ regs' = regs + 1
  /\ Commit(addClient(Cur, id, h, now, Undefined, att))
  /\ UNCHANGED <<closed, syncClose, timer, now>>

\* addClient(res)
RegisterRes(h, r, att) ==
  /\ Usable(h)
  /\ regs < MaxRegs
  /\ regs' = regs + 1
  /\ Commit(addClient(Cur, h, Undefined, now, r, att))
  /\ UNCHANGED <<closed, syncClose, timer, now>>

Remove(h, ef) ==
  /\ Commit(removeClient(Cur, h, ef))
  /\ UNCHANGED <<closed, syncClose, timer, now, regs>>

RemoveById(id, ef) ==
  /\ Commit(removeClientById(Cur, id, ef))
  /\ UNCHANGED <<closed, syncClose, timer, now, regs>>

SendToId(id, p, wf, ef) ==
  /\ Commit(sendToClient(Cur, id, p, wf, ef))
  /\ UNCHANGED <<closed, syncClose, timer, now, regs>>

SendTo(h, p, wf, ef) ==
  /\ Commit(send(Cur, h, p, wf, ef))
  /\ UNCHANGED <<closed, syncClose, timer, now, regs>>

Broadcast(p, wf, ef) ==
  /\ Commit(broadcast(Cur, p, wf, ef))
  /\ UNCHANGED <<closed, syncClose, timer, now, regs>>

\* broadcastShutdown of the controller, the shutdown hook
BroadcastShutdown(wf, ef) ==
  /\ Commit(broadcastAndClose(Cur, ShutdownPayload, wf, ef))
  /\ UNCHANGED <<closed, syncClose, timer, now, regs>>

MaxAges == (0..MaxTime) \cup {DefaultMaxAgeMs}

Prune(maxAgeMs, ef) ==
  /\ Commit(cleanupStaleClients(Cur, maxAgeMs, now, ef))
  /\ UNCHANGED <<closed, syncClose, timer, now, regs>>

\* time(req, res) of the controller: sid is req.sessionID, undefined without a session
Connect(h, sid, wf, ef) ==
  /\ Fresh(h)
  /\ Usable(h)
  /\ regs < MaxRegs
  /\ regs' = regs + 1
  /\ Commit(send(addClient(Cur, sid, h, now, Undefined, TRUE), h, TimePayload(now), wf, ef))
  /\ timer' = [timer EXCEPT ![h] = "armed"]
  /\ UNCHANGED <<closed, syncClose, now>>

\* the interval of the controller fires: sendTime
TimerTick(h, wf, ef) ==
  /\ timer[h] = "armed"
  /\ Commit(send(Cur, h, TimePayload(now), wf, ef))
  /\ UNCHANGED <<closed, syncClose, timer, now, regs>>

\* req.on("close") of the controller
ReqClose(h, ef) ==
  /\ timer[h] = "armed"
  /\ timer' = [timer EXCEPT ![h] = "cleared"]
  /\ Commit(removeClient(Cur, h, ef))
  /\ UNCHANGED <<closed, syncClose, now, regs>>

\* the transport signals closure of res: res emits close
ResClose(h, ef) ==
  /\ Usable(h)
  /\ ~closed[h]
  /\ closed' = [closed EXCEPT ![h] = TRUE]
  /\ Commit(EmitClose(Cur, h, ef))
  /\ UNCHANGED <<syncClose, timer, now, regs>>

\* code outside the helper ends the response: res.end()
ExternalEnd(h) ==
  /\ Usable(h)
  /\ ~ended[h]
  /\ Commit(ResEnd(Cur, h, {}))
  /\ UNCHANGED <<closed, syncClose, timer, now, regs>>

\* the tests mark a response as ended: res.writableEnded = true
MarkEnded(h) ==
  /\ Usable(h)
  /\ syncClose
  /\ ~ended[h]
  /\ Commit([Cur EXCEPT !.ended[h] = TRUE])
  /\ UNCHANGED <<closed, syncClose, timer, now, regs>>

\* time passes
Tick ==
  /\ now < MaxTime
  /\ now' = now + 1
  /\ Commit(Cur)
  /\ UNCHANGED <<closed, syncClose, timer, regs>>

\* the responses whose write or end can throw in a call: those not yet ended
Faults == SUBSET {h \in Handles : ~ended[h]}

ExplicitIds == SessionIds \cup {Undefined}
\* the ids a caller can name: the session ids, undefined, and the ids in the Map
KnownIds == ExplicitIds \cup MapKeys(clients)

\* the helper's API and the events of the response objects, at one instant
Next ==
  \/ \E id \in ExplicitIds, h \in Handles, att \in BOOLEAN : Register(id, h, att)
  \/ \E h \in Handles, r \in Suffixes, att \in BOOLEAN : RegisterRes(h, r, att)
  \/ \E h \in Handles, ef \in Faults : Remove(h, ef)
  \/ \E id \in KnownIds, ef \in Faults : RemoveById(id, ef)
  \/ \E id \in KnownIds, p \in Payloads, wf \in Faults, ef \in Faults :
       SendToId(id, p, wf, ef)
  \/ \E h \in Handles, p \in Payloads, wf \in Faults, ef \in Faults :
       SendTo(h, p, wf, ef)
  \/ \E p \in Payloads, wf \in Faults, ef \in Faults : Broadcast(p, wf, ef)
  \/ \E wf \in Faults, ef \in Faults : BroadcastShutdown(wf, ef)
  \/ \E ef \in Faults : Prune(DefaultMaxAgeMs, ef)
  \/ \E h \in Handles, ef \in Faults : ResClose(h, ef)
  \/ \E h \in Handles : ExternalEnd(h)
  \/ \E h \in Handles : MarkEnded(h)

Spec == Init /\ [][Next]_vars

\* the time-feed controller on top of the helper, as time passes
NextTime ==
  \/ \E h \in Handles, sid \in ExplicitIds, wf \in Faults, ef \in Faults :
       Connect(h, sid, wf, ef)
  \/ \E h \in Handles, wf \in Faults, ef \in Faults : TimerTick(h, wf, ef)
  \/ \E h \in Handles, ef \in Faults : ReqClose(h, ef)
  \/ \E h \in Handles, ef \in Faults : ResClose(h, ef)
  \/ \E h \in Handles, ef \in Faults : Remove(h, ef)
  \/ \E id \in KnownIds, ef \in Faults : RemoveById(id, ef)
  \/ \E p \in Payloads, wf \in Faults, ef \in Faults : Broadcast(p, wf, ef)
  \/ \E wf \in Faults, ef \in Faults : BroadcastShutdown(wf, ef)
  \/ \E m \in MaxAges, ef \in Faults : Prune(m, ef)
  \/ Tick

SpecTime == Init /\ [][NextTime]_vars

\* the ids the tests store corrupt entries under
CorruptIds == {"bad-entry"}
CorruptKinds == {NoRes, BadRes}

\* the tests put an entry into the Map directly: _clients.set(id, badEntry),
\* an entry without res or one whose res getter throws
Corrupt(id, kind) ==
  /\ Commit([Cur EXCEPT !.clients = MapSet(@, Entry(id, kind, now))])
  /\ UNCHANGED <<closed, syncClose, timer, now, regs>>

\* the helper with a registry that holds corrupt entries, as time passes
NextCorrupt ==
  \/ \E id \in ExplicitIds, h \in Handles, att \in BOOLEAN : Register(id, h, att)
  \/ \E id \in CorruptIds, kind \in CorruptKinds : Corrupt(id, kind)
  \/ \E p \in Payloads, wf \in Faults, ef \in Faults : Broadcast(p, wf, ef)
  \/ \E wf \in Faults, ef \in Faults : BroadcastShutdown(wf, ef)
  \/ \E m \in MaxAges, ef \in Faults : Prune(m, ef)
  \/ \E h \in Handles : MarkEnded(h)
  \/ Tick

SpecCorrupt == Init /\ [][NextCorrupt]_vars

\* addClient(clientId, res, meta) in a longer history of registrations
Reregister(id, h, att) ==
  /\ Usable(h)
  /\ regs < MaxReregs
  /\ regs' = regs + 1
  /\ Commit(addClient(Cur, id, h, now, Undefined, att))
  /\ UNCHANGED <<closed, syncClose, timer, now>>

\* registrations that reuse ids and responses, and the calls that remove
NextRereg ==
  \/ \E id \in ExplicitIds, h \in Handles, att \in BOOLEAN : Reregister(id, h, att)
  \/ \E h \in Handles, ef \in Faults : Remove(h, ef)
  \/ \E id \in KnownIds, ef \in Faults : RemoveById(id, ef)
  \/ \E h \in Handles, p \in Payloads, wf \in Faults, ef \in Faults :
       SendTo(h, p, wf, ef)
  \/ \E p \in Payloads, wf \in Faults, ef \in Faults : Broadcast(p, wf, ef)
  \/ \E wf \in Faults, ef \in Faults : BroadcastShutdown(wf, ef)

SpecRereg == Init /\ [][NextRereg]_vars

(* ------------------- the browser client (sse-client.js) --------------- *)
\* the data of the message events the server's frames give rise to
WireData == {JSONStringify(TimePayload(0)), JSONStringify(ShutdownPayload),
             JSONStringify(UndefinedPayload)}

\* what the callbacks of an observer do besides recording the notification:
\* nothing, or call subscription.unsubscribe() from next or from error
\* the observers "take1" and "take2" are those take(1) and take(2) subscribe
\* to their source with
Observers == {"passive", "unsubscribesInNext", "unsubscribesInError", "take1", "take2"}

\* count of take(count)
TakeCount(o) == IF o = "take1" THEN 1 ELSE 2

\* the next notifications among the notifications rs
NextNotes(rs) == SelectSeq(rs, LAMBDA r : r[1] \in {"open", "message"})

\* the observer o calls subscription.unsubscribe() from the next callback that
\* has just been recorded in rs: always, or, for take, when taken reaches count
UnsubscribesInNext(o, rs) ==
  \/ o = "unsubscribesInNext"
  \/ o \in {"take1", "take2"} /\ Len(NextNotes(rs)) = TakeCount(o)

\* the state of one subscription made by createSSEObservable
CurSub == [es |-> eventSource, closed |-> closedFlag, received |-> received]

\* observer.next / observer.error / observer.complete is called
Notify(C, kind, data) == [C EXCEPT !.received = Append(@, <<kind, data>>)]

\* the cleanup function subscribe returns as unsubscribe
Unsubscribe(C) ==
  IF C.closed THEN C
  ELSE Notify([C EXCEPT !.es = "closed", !.closed = TRUE], "complete", "")

\* eventSource.onopen
OnOpen(C, o) ==
  LET C1 == Notify(C, "open", "")
  IN  IF UnsubscribesInNext(o, C1.received) THEN Unsubscribe(C1) ELSE C1

\* eventSource.onmessage
OnMessage(C, o, data) ==
  IF C.closed THEN C
  ELSE LET C1 == Notify(C, "message", data)
       IN  IF UnsubscribesInNext(o, C1.received) THEN Unsubscribe(C1) ELSE C1

\* eventSource.onerror
OnError(C, o) ==
  IF C.closed THEN C
  ELSE LET C1 == Notify(C, "error", "")
           C2 == IF o = "unsubscribesInError" THEN Unsubscribe(C1) ELSE C1
       IN  [C2 EXCEPT !.es = "closed", !.closed = TRUE]

CommitSub(C) ==
  /\ eventSource' = C.es
  /\ closedFlag' = C.closed
  /\ received' = C.received
  /\ UNCHANGED <<serverVars, page, app>>

\* createSSEObservable(url).subscribe(observer): new EventSource(url)
Subscribe(o) ==
  /\ observer = "none"
  /\ observer' = o
  /\ CommitSub([CurSub EXCEPT !.es = "connecting"])

\* the browser announces the connection: readyState OPEN, the open event
EsOpen ==
  /\ eventSource = "connecting"
  /\ Len(received) < MaxNotes
  /\ CommitSub(OnOpen([CurSub EXCEPT !.es = "open"], observer))
  /\ UNCHANGED observer

\* the browser dispatches a message event
EsMessage(data) ==
  /\ eventSource = "open"
  /\ Len(received) < MaxNotes
  /\ CommitSub(OnMessage(CurSub, observer, data))
  /\ UNCHANGED observer

\* the connection is lost or cannot be made: the browser fires the error
\* event, with readyState CONNECTING when it will retry, CLOSED when it fails
EsError(fatal) ==
  /\ eventSource \in {"connecting", "open"}
  /\ CommitSub(OnError([CurSub EXCEPT !.es = IF fatal THEN "closed" ELSE "connecting"],
                       observer))
  /\ UNCHANGED observer

\* the holder of the subscription calls subscription.unsubscribe()
CallUnsubscribe ==
  /\ observer # "none"
  /\ CommitSub(Unsubscribe(CurSub))
  /\ UNCHANGED observer

\* the data a message event can carry: the server's frames, and texts of
\* other origin (JSON that is no object, text that is no JSON)
MessageData == WireData \cup {"42", "null", "invalid json"}

(* ------------- the Observable operators and parseSSEData -------------- *)
\* the objects whose JSON text the model knows
KnownObjects ==
  {TimePayload(t) : t \in Times} \cup
  {ShutdownPayload, FallbackPayload, ObjPayload("event", "x")}

JSONNumber == [kind |-> "number", key |-> "", val |-> "42"]
JSONNull == [kind |-> "null", key |-> "", val |-> ""]

\* JSON.parse throws on a text that is no JSON
ParseThrows(text) ==
  text \notin {JSONStringify(p) : p \in KnownObjects} \cup {"42", "null"}

JSONParse(text) ==
  IF text = "42" THEN JSONNumber
  ELSE IF text = "null" THEN JSONNull
  ELSE CHOOSE p \in KnownObjects : JSONStringify(p) = text

\* a parseSSEData without the test data === null
parseSSEData_acceptsNull(data) ==
  IF ParseThrows(data) THEN [status |-> "invalid", payload |-> JSONNull]
  ELSE IF JSONParse(data).kind \notin {"obj", "null"}
       THEN [status |-> "invalid", payload |-> JSONNull]
  ELSE [status |-> "ok", payload |-> JSONParse(data)]

\* parseSSEData(event), data being event.data
parseSSEData(data) ==
  IF ParseThrows(data) THEN [status |-> "invalid", payload |-> JSONNull]
  ELSE IF JSONParse(data).kind # "obj" THEN [status |-> "invalid", payload |-> JSONNull]
  ELSE [status |-> "ok", payload |-> JSONParse(data)]

\* the value the observer of createSSEObservable gets with next
SSEValue(note) == [tag |-> "sse", type |-> note[1], data |-> note[2]]

\* the functions handed to the operators, by name: the result of a call, or threw
Apply(fn, v) ==
  CASE fn = "isMessage" ->
         [threw |-> FALSE,
          val |-> [tag |-> "bool", b |-> v.tag = "sse" /\ v.type = "message"]]
    [] fn = "parseSSEData" ->
         \* a value without event makes JSON.parse(event.data) throw inside the try
         IF v.tag # "sse" \/ v.type # "message"
         THEN [threw |-> FALSE,
               val |-> [tag |-> "parsed", status |-> "invalid", payload |-> JSONNull]]
         ELSE [threw |-> FALSE,
               val |-> [tag |-> "parsed", status |-> parseSSEData(v.data).status,
                        payload |-> parseSSEData(v.data).payload]]
    [] fn = "isOk" ->
         [threw |-> FALSE, val |-> [tag |-> "bool", b |-> v.tag = "parsed" /\ v.status = "ok"]]
    [] fn = "payload" ->
         [threw |-> FALSE,
          val |-> [tag |-> "json", payload |-> IF v.tag = "parsed" THEN v.payload ELSE JSONNull]]
    [] fn = "identity" -> [threw |-> FALSE, val |-> v]
    [] fn = "true" -> [threw |-> FALSE, val |-> [tag |-> "bool", b |-> TRUE]]
    [] fn = "dataIsObject" ->
         \* ({event}) => typeof JSON.parse(event.data) === "object": throws on
         \* the open event (event is null) and on data that is no JSON
         IF v.tag # "sse" \/ v.type # "message" \/ ParseThrows(v.data)
         THEN [threw |-> TRUE, val |-> v]
         ELSE [threw |-> FALSE,
               val |-> [tag |-> "bool", b |-> JSONParse(v.data).kind \in {"obj", "null"}]]
    [] OTHER -> [threw |-> TRUE, val |-> v]

Stage(op, fn) == [op |-> op, fn |-> fn]

RECURSIVE Push(_, _, _)
\* next(v) arrives at the operator stages[i]; past the last operator it reaches
\* the subscriber.  map, filter and tap call the function inside try and hand
\* what it throws to the error callback downstream.
Push(stages, i, v) ==
  IF i > Len(stages) THEN <<[kind |-> "next", val |-> v]>>
  ELSE
    LET r == Apply(stages[i].fn, v) IN
    IF r.threw THEN <<[kind |-> "error", val |-> [tag |-> "thrown", by |-> stages[i].fn]]>>
    ELSE IF stages[i].op = "map" THEN Push(stages, i + 1, r.val)
    ELSE IF stages[i].op = "filter"
         THEN IF r.val.b THEN Push(stages, i + 1, v) ELSE <<>>
    ELSE Push(stages, i + 1, v)

RECURSIVE Piped(_, _)
\* what the subscriber at the end of the operators receives when the source
\* delivers the notifications notes: error and complete pass every operator
Piped(stages, notes) ==
  IF notes = <<>> THEN <<>>
  ELSE
    LET n == Head(notes) IN
    (IF n[1] \in {"open", "message"} THEN Push(stages, 1, SSEValue(n))
     ELSE <<[kind |-> n[1], val |-> [tag |-> "none"]]>>)
    \o Piped(stages, Tail(notes))

\* .filter(({type}) => type === "message").map(({event}) => parseSSEData(event))
\* .filter(({status}) => status === "ok").map(({payload}) => payload)
StandardPipeline ==
  <<Stage("filter", "isMessage"), Stage("map", "parseSSEData"),
    Stage("filter", "isOk"), Stage("map", "payload")>>

NextClient ==
  \/ \E o \in Observers : Subscribe(o)
  \/ EsOpen
  \/ \E data \in MessageData : EsMessage(data)
  \/ \E fatal \in BOOLEAN : EsError(fatal)
  \/ CallUnsubscribe

SpecClient == Init /\ [][NextClient]_vars

(* ------- the operators as methods and as standalone functions --------- *)
\* an Observable is held as the notifications its subscriber is handed
Next_(v) == [kind |-> "next", val |-> v]
Thrown(fn) == [kind |-> "error", val |-> [tag |-> "thrown", by |-> fn]]

\* the Observable createSSEObservable returns, having delivered the notes rs
SourceNotes(rs) ==
  [i \in 1..Len(rs) |->
     IF rs[i][1] \in {"open", "message"} THEN Next_(SSEValue(rs[i]))
     ELSE [kind |-> rs[i][1], val |-> [tag |-> "none"]]]

RECURSIVE Observable_map(_, _)
\* Observable.prototype.map of sse-client.js
Observable_map(fn, src) ==
  IF src = <<>> THEN <<>>
  ELSE LET n == Head(src) IN
       (IF n.kind # "next" THEN <<n>>
        ELSE IF Apply(fn, n.val).threw THEN <<Thrown(fn)>>
        ELSE <<Next_(Apply(fn, n.val).val)>>) \o Observable_map(fn, Tail(src))

RECURSIVE Observable_filter(_, _)
\* Observable.prototype.filter of sse-client.js
Observable_filter(predicate, src) ==
  IF src = <<>> THEN <<>>
  ELSE LET n == Head(src) IN
       (IF n.kind # "next" THEN <<n>>
        ELSE IF Apply(predicate, n.val).threw THEN <<Thrown(predicate)>>
        ELSE IF Apply(predicate, n.val).val.b THEN <<n>>
        ELSE <<>>) \o Observable_filter(predicate, Tail(src))

RECURSIVE Observable_tap(_, _)
\* Observable.prototype.tap of sse-client.js
Observable_tap(fn, src) ==
  IF src = <<>> THEN <<>>
  ELSE LET n == Head(src) IN
       (IF n.kind # "next" THEN <<n>>
        ELSE IF Apply(fn, n.val).threw THEN <<Thrown(fn)>>
        ELSE <<n>>) \o Observable_tap(fn, Tail(src))

RECURSIVE Chained(_, _)
\* source.op1(fn1)...opk(fnk) of the monolithic client
Chained(source, calls) ==
  IF calls = <<>> THEN source
  ELSE LET c == Head(calls)
           o == IF c.op = "map" THEN Observable_map(c.fn, source)
                ELSE IF c.op = "filter" THEN Observable_filter(c.fn, source)
                ELSE Observable_tap(c.fn, source)
       IN  Chained(o, Tail(calls))

RECURSIVE map(_, _)
\* map(fn)(source) of sse-client-shakeable.js
map(fn, source) ==
  IF source = <<>> THEN <<>>
  ELSE LET n == Head(source)
           r == Apply(fn, n.val)
       IN  (CASE n.kind # "next" -> <<n>>
              [] n.kind = "next" /\ r.threw -> <<Thrown(fn)>>
              [] OTHER -> <<Next_(r.val)>>) \o map(fn, Tail(source))

RECURSIVE filter(_, _)
\* filter(predicate)(source) of sse-client-shakeable.js
filter(predicate, source) ==
  IF source = <<>> THEN <<>>
  ELSE LET n == Head(source)
           r == Apply(predicate, n.val)
       IN  (CASE n.kind # "next" -> <<n>>
              [] n.kind = "next" /\ r.threw -> <<Thrown(predicate)>>
              [] OTHER -> IF r.val.b THEN <<n>> ELSE <<>>) \o filter(predicate, Tail(source))

RECURSIVE tap(_, _)
\* tap(fn)(source) of sse-client-shakeable.js
tap(fn, source) ==
  IF source = <<>> THEN <<>>
  ELSE LET n == Head(source)
           r == Apply(fn, n.val)
       IN  (CASE n.kind # "next" -> <<n>>
              [] n.kind = "next" /\ r.threw -> <<Thrown(fn)>>
              [] OTHER -> <<n>>) \o tap(fn, Tail(source))

\* operator(acc) for an operator made by map(fn), filter(fn) or tap(fn)
Operate(operator, acc) ==
  IF operator.op = "map" THEN map(operator.fn, acc)
  ELSE IF operator.op = "filter" THEN filter(operator.fn, acc)
  ELSE tap(operator.fn, acc)

RECURSIVE pipe_rightToLeft(_, _)
\* a pipe that composes with reduceRight
pipe_rightToLeft(operators, source) ==
  IF operators = <<>> THEN source
  ELSE pipe_rightToLeft(SubSeq(operators, 1, Len(operators) - 1),
                        Operate(operators[Len(operators)], source))

RECURSIVE pipe(_, _)
\* pipe(...operators)(source): operators.reduce((acc, operator) => operator(acc), source)
pipe(operators, source) ==
  IF operators = <<>> THEN source
  ELSE pipe(Tail(operators), Operate(Head(operators), source))

(* ---------------- take of sse-client-shakeable.js ---------------------- *)
RECURSIVE TakeRun(_, _, _, _)
\* what the observer of take(count)(source) is handed while the notifications
\* rs reach the observer take subscribed to the source with; unsubscribing from
\* the source is in rs as the complete the source answers it with
TakeRun(rs, count, taken, out) ==
  IF rs = <<>> THEN out
  ELSE
    LET r == Head(rs) IN
    IF r[1] \in {"open", "message"}
    THEN IF taken < count
         THEN TakeRun(Tail(rs), count, taken + 1,
                      IF taken + 1 >= count THEN out \o <<r, <<"complete", "">> >>
                      ELSE Append(out, r))
         ELSE TakeRun(Tail(rs), count, taken, out)
    ELSE TakeRun(Tail(rs), count, taken, Append(out, r))

\* take(count) over a source that has handed rs to take's observer
take(rs, count) == TakeRun(rs, count, 0, <<>>)

RECURSIVE TakeSyncRun(_, _, _, _)
\* take(count) over a source that emits the values vs inside subscribe: the
\* callback reads subscription before source.subscribe has returned
TakeSyncRun(vs, count, taken, out) ==
  IF vs = <<>> THEN [out |-> out, threw |-> FALSE]
  ELSE IF taken < count
       THEN IF taken + 1 >= count
            THEN [out |-> out \o <<Head(vs), <<"complete", "">> >>, threw |-> TRUE]
            ELSE TakeSyncRun(Tail(vs), count, taken + 1, Append(out, Head(vs)))
       ELSE TakeSyncRun(Tail(vs), count, taken, out)

takeSync(vs, count) == TakeSyncRun(vs, count, 0, <<>>)

(* ---------------- the time page: public/javascripts/time.js ------------ *)
\* parseSSEData of time.js
parseTimeData(data) ==
  IF ParseThrows(data) THEN [status |-> "invalid", payload |-> JSONNull]
  ELSE IF JSONParse(data).kind # "obj" THEN [status |-> "invalid", payload |-> JSONNull]
  ELSE [status |-> "ok", payload |-> JSONParse(data)]

\* payload.type of a parsed object
TypeOf(payload) == IF payload.key = "type" THEN payload.val ELSE Undefined

\* event.target.close(): readyState CLOSED, the connection is dropped
EsClose(pg) == [pg EXCEPT !.state = "closed", !.inbox = <<>>]

\* a handler that only logs the shutdown
handleTimeEvent_onlyLogs(pg, data) == pg

\* handleTimeEvent(event), data being event.data and pg holding event.target
handleTimeEvent(pg, data) ==
  LET r == parseTimeData(data) IN
  IF r.status # "ok" THEN pg
  ELSE IF TypeOf(r.payload) = "error" THEN pg
  ELSE IF TypeOf(r.payload) = "shutdown" THEN EsClose(pg)
  ELSE pg

\* the request of the page's EventSource reaches time(req, res) with response h
PageRequest(h, sid, wf, ef) ==
  /\ Fresh(h)
  /\ Usable(h)
  /\ regs < MaxRegs
  /\ regs' = regs + 1
  /\ CommitTo(send(addClient(Cur, sid, h, now, Undefined, TRUE), h, TimePayload(now), wf, ef),
              [page EXCEPT !.state = "connecting", !.handle = h, !.inbox = <<>>,
                           !.attempts = @ + 1])
  /\ timer' = [timer EXCEPT ![h] = "armed"]
  /\ UNCHANGED <<closed, syncClose, now>>

\* DOMContentLoaded: onReady calls connect(), which creates the EventSource
PageLoad(h, sid, wf, ef) ==
  /\ page.state = "none"
  /\ PageRequest(h, sid, wf, ef)

\* the browser re-establishes a connection it lost
PageReconnect(h, sid, wf, ef) ==
  /\ page.state = "connecting"
  /\ page.handle = "none"
  /\ PageRequest(h, sid, wf, ef)

\* the response headers arrive: readyState OPEN, evtSource.onopen logs
PageOpen ==
  /\ page.state = "connecting"
  /\ page.handle # "none"
  /\ page' = [page EXCEPT !.state = "open"]
  /\ UNCHANGED <<serverVars, clientVars, app>>

\* the browser dispatches the next frame: evtSource.onmessage = handleTimeEvent
PageMessage ==
  /\ page.state = "open"
  /\ page.inbox # <<>>
  /\ Head(page.inbox) # Eof
  /\ page' = handleTimeEvent([page EXCEPT !.inbox = Tail(@)], Head(page.inbox))
  /\ UNCHANGED <<serverVars, clientVars, app>>

\* the stream ends while the EventSource is not closed: the browser sets
\* readyState CONNECTING, fires error (evtSource.onerror logs) and will retry
PageEof ==
  /\ page.state \in {"connecting", "open"}
  /\ page.inbox # <<>>
  /\ Head(page.inbox) = Eof
  /\ page' = [page EXCEPT !.state = "connecting", !.handle = "none", !.inbox = <<>>]
  /\ UNCHANGED <<serverVars, clientVars, app>>

\* the interval fires while the page's connection has room
FeedTick(h, wf, ef) ==
  /\ Len(page.inbox) < MaxInbox
  /\ TimerTick(h, wf, ef)

\* the time page, the time feed and the shutdown hook together
NextDemo ==
  \/ \E h \in Handles, sid \in ExplicitIds, wf \in Faults, ef \in Faults :
       PageLoad(h, sid, wf, ef)
  \/ \E h \in Handles, sid \in ExplicitIds, wf \in Faults, ef \in Faults :
       PageReconnect(h, sid, wf, ef)
  \/ PageOpen
  \/ PageMessage
  \/ PageEof
  \/ \E h \in Handles, sid \in ExplicitIds, wf \in Faults, ef \in Faults :
       Connect(h, sid, wf, ef)
  \/ \E h \in Handles, wf \in Faults, ef \in Faults : FeedTick(h, wf, ef)
  \/ \E h \in Handles, ef \in Faults : ReqClose(h, ef)
  \/ \E wf \in Faults, ef \in Faults : BroadcastShutdown(wf, ef)
  \/ Tick

SpecDemo == Init /\ [][NextDemo]_vars

(* ---------------- app.js: shutdown() and the shutdown hooks ------------ *)
\* a shutdown() that runs the hooks on every call
shutdown_unguarded(a, c) ==
  [a EXCEPT !.shutdownInProgress = TRUE, !.calls[c] = "awaitHooks"]

\* shutdown() up to its first await: a call that finds shutdownInProgress set
\* returns, the other sets it and calls shutdownHooks.runAll(logger)
shutdown(a, c) ==
  IF a.shutdownInProgress THEN [a EXCEPT !.calls[c] = "returned"]
  ELSE [a EXCEPT !.shutdownInProgress = TRUE, !.calls[c] = "awaitHooks"]

\* call c of shutdown() is made (a signal handler of bin/www)
CallShutdown(c) ==
  /\ app.calls[c] = "idle"
  /\ app' = shutdown(app, c)
  /\ UNCHANGED <<serverVars, clientVars, page>>

\* shutdownHooks.runAll(logger) of call c runs the registered hook, which
\* calls broadcastShutdown(); an error is caught and logged by shutdown()
RunHooks(c, wf, ef) ==
  /\ app.calls[c] = "awaitHooks"
  /\ LET R == broadcastAndClose(Cur, ShutdownPayload, wf, ef) IN
     /\ CommitCall(R, page)
     /\ app' = [app EXCEPT !.hookRuns = @ + 1,
                           !.calls[c] = IF R.exc THEN "done" ELSE "awaitLogger"]
  /\ UNCHANGED <<closed, syncClose, timer, now, regs>>

\* the logger of call c emits finish: shutdown() resolves
LoggerFinish(c) ==
  /\ app.calls[c] = "awaitLogger"
  /\ app' = [app EXCEPT !.calls[c] = "done"]
  /\ UNCHANGED <<serverVars, clientVars, page>>

\* the time feed and the calls of shutdown()
NextShutdown ==
  \/ \E h \in Handles, sid \in ExplicitIds, wf \in Faults, ef \in Faults :
       Connect(h, sid, wf, ef)
  \/ \E h \in Handles, wf \in Faults, ef \in Faults : TimerTick(h, wf, ef)
  \/ \E h \in Handles, ef \in Faults : ReqClose(h, ef)
  \/ \E h \in Handles, ef \in Faults : ResClose(h, ef)
  \/ \E c \in 1..MaxShutdownCalls : CallShutdown(c)
  \/ \E c \in 1..MaxShutdownCalls, wf \in Faults, ef \in Faults : RunHooks(c, wf, ef)
  \/ \E c \in 1..MaxShutdownCalls : LoggerFinish(c)

SpecShutdown == Init /\ [][NextShutdown]_vars

(* ====================================================================== *)
(*                              properties                                *)
(* ====================================================================== *)
\* the payloads and the failures a call is examined with
ClaimPayloads == Payloads \cup {UndefinedPayload, ShutdownPayload}
AnyFaults == SUBSET Handles

EventsOf(R, kind) == {i \in 1..Len(R.events) : R.events[i][1] = kind}
EventsOn(R, kind, h) == {i \in EventsOf(R, kind) : R.events[i][2] = h}
HasRecord(cs, h) == \E i \in 1..Len(cs) : cs[i].res = h
RecordSet(cs) == {cs[i] : i \in 1..Len(cs)}

\* C1: after broadcastAndClose(payload) returns, the registry is empty and the
\* call has not raised, whatever the registry held and whichever writes and
\* terminations failed.
C1_ShutdownEmptiesRegistry ==
  \A p \in ClaimPayloads, wf \in AnyFaults, ef \in AnyFaults :
    LET R == broadcastAndClose(Cur, p, wf, ef)
    IN  ~R.exc /\ getClientCount(R) = 0

\* a shutdown of two clients in which a write and a termination fail, and one
\* response is ended
C1_Witness ==
  \E wf \in AnyFaults, ef \in AnyFaults :
    LET R == broadcastAndClose(Cur, ShutdownPayload, wf, ef)
    IN  /\ Len(clients) >= 2
        /\ EventsOf(R, "writeFail") # {} /\ EventsOf(R, "endFail") # {}
        /\ EventsOf(R, "end") # {}
        /\ ~R.exc /\ getClientCount(R) = 0

\* the records broadcast has to remove: those whose write throws or whose
\* response is already ended
WriteFails(e, wf) == e.res \in wf \/ ended[e.res]

\* C2: broadcast(payload) does not raise, removes exactly the records whose
\* write failed or whose response was already ended, keeps every other record,
\* and every response whose write succeeds receives the formatted message
\* exactly once.
C2_BroadcastIsolation ==
  \A p \in ClaimPayloads, wf \in AnyFaults, ef \in AnyFaults :
    LET R == broadcast(Cur, p, wf, ef)
    IN  /\ ~R.exc
        /\ R.clients = SelectSeq(clients, LAMBDA e : ~WriteFails(e, wf))
        /\ \A h \in Handles :
             (HasRecord(clients, h) /\ ~ended[h] /\ h \notin wf) =>
               /\ Cardinality(EventsOn(R, "write", h)) = 1
               /\ \A i \in EventsOn(R, "write", h) : R.events[i][3] = formatSSEMessage(p)

\* C3: when the close event of a registered response fires (its close listener
\* is attached), the registry afterwards holds no record for that response,
\* under whatever id it was registered.
C3_CloseRemovesRecord ==
  \A h \in Handles, ef \in AnyFaults :
    (listeners[h] > 0 /\ HasRecord(clients, h)) =>
      ~HasRecord(EmitClose(Cur, h, ef).clients, h)

IsGeneratedId(id) == \E t \in Times, r \in Suffixes : id = GeneratedId(t, r)

\* register with the id omitted: addClient(res), or addClient(undefined, res, meta)
\* as the controller calls it without a session
RegisterOmitted(S, form, h, r) ==
  IF form = "res" THEN addClient(S, h, Undefined, now, r, TRUE)
  ELSE addClient(S, Undefined, h, now, r, TRUE)

\* C4: two registrations with the id omitted, of two distinct responses, in
\* either form, each return a generated string id, the two ids differ (the
\* random suffixes drawn differ), and the registry then holds two records.
C4_OmittedIdsAreGenerated ==
  \A h1 \in Handles, h2 \in Handles, r1 \in Suffixes, r2 \in Suffixes,
     f1 \in {"res", "undefined"}, f2 \in {"res", "undefined"} :
    (h1 # h2 /\ r1 # r2 /\ clients = <<>>) =>
      LET R1 == RegisterOmitted(Cur, f1, h1, r1)
          R2 == RegisterOmitted(R1, f2, h2, r2)
      IN  /\ IsGeneratedId(R1.ret) /\ IsGeneratedId(R2.ret)
          /\ R1.ret # R2.ret
          /\ getClientCount(R2) = 2

\* C5: at most one id of the registry refers to a given response: a response
\* registered again under another id, explicit or generated, has the record of
\* its old id dropped and is left with exactly one record.
C5_OneIdPerHandle ==
  \A i \in 1..Len(clients), j \in 1..Len(clients) :
    clients[i].res = clients[j].res => i = j

\* sendTime on the response h writes nothing and changes no registry state
TickIsNoOp(h) ==
  \A wf \in AnyFaults, ef \in AnyFaults :
    LET R == send(Cur, h, TimePayload(now), wf, ef)
    IN  /\ EventsOf(R, "write") = {}
        /\ R.clients = clients /\ R.resIndex = resIndex

\* C6: once a step that is no registration (remove, removeById, pruning, a
\* failed send or broadcast, the shutdown broadcast, a close event) has taken
\* the record of a connection out of the registry, a tick of that connection's
\* timer writes nothing to its response and changes no registry state.
C6_TickAfterRemovalIsNoOp ==
  [][\A h \in Handles :
       (regs' = regs /\ HasRecord(clients, h) /\ ~HasRecord(clients', h)
          /\ timer'[h] = "armed") => TickIsNoOp(h)']_vars

\* the part of the state the helper's calls act on
CoreOf(S) == <<S.clients, S.resIndex, S.ended, S.listeners>>

\* C7: removeClientById twice in succession never raises, the second call
\* changes nothing and the count falls by at most one over both; removing an
\* absent id, or a response that has no record, changes no record and no response.
C7_RemovalIdempotent ==
  /\ \A id \in KnownIds \cup {"does-not-exist"}, ef1 \in AnyFaults, ef2 \in AnyFaults :
       LET R1 == removeClientById(Cur, id, ef1)
           R2 == removeClientById([R1 EXCEPT !.events = <<>>], id, ef2)
       IN  /\ ~R1.exc /\ ~R2.exc
           /\ CoreOf(R2) = CoreOf(R1) /\ R2.events = <<>>
           /\ getClientCount(Cur) - getClientCount(R2) <= 1
           /\ ~MapHas(clients, id) => CoreOf(R1) = CoreOf(Cur)
  /\ \A h \in Handles, ef \in AnyFaults :
       ~HasRecord(clients, h) =>
         LET R == removeClient(Cur, h, ef)
         IN  ~R.exc /\ R.clients = clients /\ R.ended = ended

WriteAttempts(R) == EventsOf(R, "write") \cup EventsOf(R, "writeFail")

\* C8: sendToClient(id, payload) returns true exactly when a record for id
\* exists whose response is not ended, and then exactly one write, of
\* formatSSEMessage(payload), is attempted, on that response (true also when
\* the write throws); without a record for id it returns false and changes
\* neither the registry nor any response.
C8_SendToIdResult ==
  \A id \in KnownIds \cup {"does-not-exist"}, p \in ClaimPayloads,
     wf \in AnyFaults, ef \in AnyFaults :
    LET R == sendToClient(Cur, id, p, wf, ef)
        live == MapHas(clients, id) /\ ~ended[MapGet(clients, id).res]
    IN  /\ ~R.exc
        /\ R.ret \in {"true", "false"}
        /\ (R.ret = "true") <=> live
        /\ live =>
             /\ Cardinality(WriteAttempts(R)) = 1
             /\ \A i \in WriteAttempts(R) :
                  /\ R.events[i][2] = MapGet(clients, id).res
                  /\ R.events[i][3] = formatSSEMessage(p)
        /\ ~MapHas(clients, id) =>
             R.ret = "false" /\ CoreOf(R) = CoreOf(Cur) /\ R.events = <<>>

\* a send to a registered, open response whose write throws, and one that is
\* written, both returning true; and a send to an id without a record
C8_Witness ==
  /\ \E id \in MapKeys(clients), wf \in AnyFaults :
       LET R == sendToClient(Cur, id, CircularPayload, wf, {})
       IN  R.ret = "true" /\ EventsOf(R, "writeFail") # {}
  /\ \E id \in MapKeys(clients) :
       LET R == sendToClient(Cur, id, CircularPayload, {}, {})
       IN  R.ret = "true" /\ EventsOf(R, "write") # {}
  /\ \E id \in KnownIds : sendToClient(Cur, id, CircularPayload, {}, {}).ret = "false"

\* C9: sendToClient on a record whose response has already ended returns
\* false, writes nothing, and removes the record, so that the registry no longer
\* holds the id.
C9_SendToEndedPrunes ==
  \A id \in MapKeys(clients), p \in ClaimPayloads, wf \in AnyFaults, ef \in AnyFaults :
    ended[MapGet(clients, id).res] =>
      LET R == sendToClient(Cur, id, p, wf, ef)
      IN  /\ ~R.exc /\ R.ret = "false"
          /\ WriteAttempts(R) = {}
          /\ ~MapHas(R.clients, id)

\* a record whose response is ended, beside a record that stays
C9_Witness ==
  \E id \in MapKeys(clients) :
    /\ ended[MapGet(clients, id).res]
    /\ Len(clients) = 2
    /\ LET R == sendToClient(Cur, id, ShutdownPayload, {}, {})
       IN  R.ret = "false" /\ getClientCount(R) = 1

\* C10: send(res, payload) does nothing when res is already ended; otherwise it
\* attempts exactly one write, and if the write throws it attempts to end res
\* and removes the record of res; it never raises, also when end throws.
C10_SendContract ==
  \A h \in Handles, p \in ClaimPayloads, wf \in AnyFaults, ef \in AnyFaults :
    LET R == send(Cur, h, p, wf, ef)
    IN  /\ ~R.exc
        /\ ended[h] => CoreOf(R) = CoreOf(Cur) /\ R.events = <<>>
        /\ ~ended[h] =>
             /\ Cardinality(WriteAttempts(R)) = 1
             /\ \A i \in WriteAttempts(R) :
                  R.events[i][2] = h /\ R.events[i][3] = formatSSEMessage(p)
             /\ h \in wf =>
                  /\ EventsOn(R, "end", h) \cup EventsOn(R, "endFail", h) # {}
                  /\ ~HasRecord(R.clients, h)
             /\ h \notin wf => CoreOf(R) = CoreOf(Cur)

\* the write attempts (succeeding or throwing) a call made on the response h
AttemptsOn(R, h) == EventsOn(R, "write", h) \cup EventsOn(R, "writeFail", h)
\* the attempts a call made to end the response h
EndAttemptsOn(R, h) == EventsOn(R, "end", h) \cup EventsOn(R, "endFail", h)

\* C11: one broadcast(payload) attempts exactly one write, of the one string
\* formatSSEMessage(payload), on the response of every record that is not ended
\* when the call is made: no live response is skipped, none is written twice.
C11_BroadcastOncePerLive ==
  \A p \in ClaimPayloads, wf \in AnyFaults, ef \in AnyFaults :
    LET R == broadcast(Cur, p, wf, ef)
    IN  \A h \in Handles :
          (HasRecord(clients, h) /\ ~ended[h]) =>
            /\ Cardinality(AttemptsOn(R, h)) = 1
            /\ \A i \in AttemptsOn(R, h) : R.events[i][3] = formatSSEMessage(p)

\* C12: in broadcastAndClose a failing write or termination of one response
\* does not stop the others: every registered response that is not ended gets
\* exactly one write attempt of the message and a termination attempt, and is
\* ended on return unless its termination failed; the call does not raise.
C12_ShutdownIsolation ==
  \A p \in ClaimPayloads, wf \in AnyFaults, ef \in AnyFaults :
    LET R == broadcastAndClose(Cur, p, wf, ef)
    IN  /\ ~R.exc
        /\ \A h \in Handles :
             (HasRecord(clients, h) /\ ~ended[h]) =>
               /\ Cardinality(AttemptsOn(R, h)) = 1
               /\ \A i \in AttemptsOn(R, h) : R.events[i][3] = formatSSEMessage(p)
               /\ EndAttemptsOn(R, h) # {}
               /\ h \notin ef => R.ended[h]

\* a registration in which no close listener gets attached (res has no once
\* method, or once throws), in each of the three forms of the call
RegisterNoListener(S, form, id, h, r) ==
  IF form = "res" THEN addClient(S, h, Undefined, now, r, FALSE)
  ELSE IF form = "undefined" THEN addClient(S, Undefined, h, now, r, FALSE)
  ELSE addClient(S, id, h, now, r, FALSE)

\* the id such a registration is to use
IdToUse(form, id, r) == IF form = "explicit" THEN id ELSE GeneratedId(now, r)

\* C13 (registration): addClient of a response that has no record, under an id
\* the registry does not hold, succeeds when no close listener can be attached:
\* it does not raise, returns the id, stores the record of the response under it
\* and raises the count by one.
C13_RegisterSucceeds ==
  \A h \in Handles, form \in {"res", "undefined", "explicit"},
     id \in SessionIds, r \in Suffixes :
    (~HasRecord(clients, h) /\ resIndex[h] = Absent
       /\ ~MapHas(clients, IdToUse(form, id, r))) =>
      LET R == RegisterNoListener(Cur, form, id, h, r)
      IN  /\ ~R.exc
          /\ R.ret = IdToUse(form, id, r)
          /\ MapHas(R.clients, R.ret) /\ MapGet(R.clients, R.ret).res = h
          /\ getClientCount(R) = getClientCount(Cur) + 1
          /\ R.listeners[h] = listeners[h]

\* C13 (persistence): the record of a response that has no close listener is
\* not removed by a close event or by the ending of any response; only a
\* removal, a pruning, a failed write or the shutdown takes it out.
C13_StaysWithoutListener ==
  \A h \in Handles, g \in Handles, ef \in AnyFaults :
    (HasRecord(clients, h) /\ listeners[h] = 0) =>
      /\ HasRecord(EmitClose(Cur, g, ef).clients, h)
      /\ (g # h /\ ~ended[g]) => HasRecord(ResEnd(Cur, g, ef).clients, h)

\* C13: registration succeeds without a close listener, and the record then
\* stays registered until a removal, a pruning, a failed write or the shutdown.
C13_NoListenerRegistration == C13_RegisterSucceeds /\ C13_StaysWithoutListener

\* what a pruning pass with the maximum age m has to leave of the records e
\* of the registry: kept exactly when the response is present, not ended and
\* not older than m; ended if removed while open; untouched if kept
PruneOutcome(R, m) ==
  /\ ~R.exc
  /\ RecordSet(R.clients) \subseteq RecordSet(clients)
  /\ \A e \in RecordSet(clients) :
       LET live == IsHandle(e.res) /\ ~ended[e.res] /\ now - e.createdAt <= m
       IN  /\ (e \in RecordSet(R.clients)) <=> live
           /\ (~live /\ IsHandle(e.res) /\ ~ended[e.res]) => EndAttemptsOn(R, e.res) # {}
           /\ live => AttemptsOn(R, e.res) = {} /\ EndAttemptsOn(R, e.res) = {}

\* C14: after cleanupStaleClients(maxAgeMs), for every maxAgeMs >= 0 and for
\* the default of one hour, a record remains exactly when its response is
\* present, not ended and not older than maxAgeMs; the open responses of the
\* removed records are terminated, those of the kept records are neither
\* written to nor terminated.
C14_PruneExactly ==
  \A m \in MaxAges, ef \in AnyFaults :
    PruneOutcome(cleanupStaleClients(Cur, m, now, ef), m)

HasCorrupt(cs) == \E i \in 1..Len(cs) : cs[i].res = BadRes

\* C15: cleanupStaleClients never raises; with a record in the registry whose
\* res throws when read, that record is removed as corrupt and every other
\* record is still examined: the stale ones (response missing or ended, or older
\* than maxAgeMs) are removed and the live ones are kept.
C15_PruneSurvivesCorruption ==
  \A m \in MaxAges, ef \in AnyFaults :
    LET R == cleanupStaleClients(Cur, m, now, ef)
    IN  /\ ~R.exc
        /\ HasCorrupt(clients) =>
             /\ ~HasCorrupt(R.clients)
             /\ \A e \in RecordSet(clients) :
                  e.res # BadRes =>
                    ((e \in RecordSet(R.clients)) <=>
                       (e.res # NoRes /\ ~ended[e.res] /\ now - e.createdAt <= m))

\* C16: removeClientById(id) on a present record attempts to end the record's
\* response exactly when it is not already ended (once), and removes the entry
\* of id from the Map and the entry of that response from resIndex, also when
\* end throws; it never raises.
C16_RemoveByIdContract ==
  \A id \in MapKeys(clients), ef \in AnyFaults :
    LET h == MapGet(clients, id).res
        R == removeClientById(Cur, id, ef)
    IN  /\ ~R.exc
        /\ Cardinality(EndAttemptsOn(R, h)) = IF ended[h] THEN 0 ELSE 1
        /\ ~MapHas(R.clients, id)
        /\ R.resIndex[h] = Absent

\* a removal by id in which end throws, one of an ended response and one of an
\* open response that ends, each with the reverse entry present before
C16_Witness ==
  /\ \E id \in MapKeys(clients) :
       LET h == MapGet(clients, id).res
           R == removeClientById(Cur, id, {h})
       IN  /\ ~ended[h] /\ resIndex[h] = id
           /\ EventsOn(R, "endFail", h) # {}
           /\ ~MapHas(R.clients, id) /\ R.resIndex[h] = Absent
  /\ \E id \in MapKeys(clients) :
       LET h == MapGet(clients, id).res
           R == removeClientById(Cur, id, {})
       IN  /\ (ended[h] /\ resIndex[h] = id /\ R.events = <<<<"delete", id, "">>>>)
  /\ Len(clients) = 2

\* C17: when the request of a connection of the time feed emits close, the
\* connection's interval is cleared and stays cleared (no later tick), and the
\* registry afterwards holds no record for the connection's response, under
\* whatever id the connection was registered.
C17_ReqCloseCleansUp ==
  [][\A h \in Handles :
       /\ (timer[h] = "armed" /\ timer'[h] = "cleared") => ~HasRecord(clients', h)
       /\ timer[h] = "cleared" => timer'[h] = "cleared"]_vars

\* the payloads JSON can encode: the plain objects
Encodable(p) == p.kind = "obj"
\* the JSON text a frame has to carry for the payload p
FrameJSON(p) == IF Encodable(p) THEN JSONStringify(p) ELSE JSONStringify(FallbackPayload)

\* C18: formatSSEMessage(p) is "data: " + J + "\n\n", J being the JSON encoding
\* of p when p can be encoded and that of {error: "unserializable payload"}
\* otherwise (a cyclic structure, an unsupported value such as undefined); and
\* send with a payload that cannot be encoded writes that fallback frame once
\* and leaves the record of the response in the registry.
C18_FrameIsJSON ==
  /\ \A p \in ClaimPayloads : formatSSEMessage(p) = "data: " \o FrameJSON(p) \o "\n\n"
  /\ \A h \in Handles, p \in ClaimPayloads :
       (~Encodable(p) /\ HasRecord(clients, h) /\ ~ended[h]) =>
         LET R == send(Cur, h, p, {}, {})
         IN  /\ ~R.exc
             /\ R.events = <<<<"write", h, "data: " \o JSONStringify(FallbackPayload) \o "\n\n">>>>
             /\ CoreOf(R) = CoreOf(Cur)

\* after the call that left R, no record refers to a response the call ended
NoRecordOfEnded(R) ==
  \A h \in Handles : EventsOn(R, "end", h) # {} => ~HasRecord(R.clients, h)

\* C19: when removeClientById, removeClient, a send whose write fails,
\* broadcast, cleanupStaleClients or broadcastAndClose returns, the registry
\* holds no record of a response that the call has ended.
C19_NoRecordOfTerminated ==
  /\ \A id \in KnownIds, ef \in AnyFaults : NoRecordOfEnded(removeClientById(Cur, id, ef))
  /\ \A h \in Handles, ef \in AnyFaults : NoRecordOfEnded(removeClient(Cur, h, ef))
  /\ \A h \in Handles, p \in ClaimPayloads, wf \in AnyFaults, ef \in AnyFaults :
       h \in wf => NoRecordOfEnded(send(Cur, h, p, wf, ef))
  /\ \A p \in ClaimPayloads, wf \in AnyFaults, ef \in AnyFaults :
       /\ NoRecordOfEnded(broadcast(Cur, p, wf, ef))
       /\ NoRecordOfEnded(broadcastAndClose(Cur, p, wf, ef))
  /\ \A m \in MaxAges, ef \in AnyFaults :
       NoRecordOfEnded(cleanupStaleClients(Cur, m, now, ef))

Terminals(rs) == {i \in 1..Len(rs) : rs[i][1] \in {"error", "complete"}}

\* C20: a subscription made by createSSEObservable delivers open and message
\* notifications, then at most one terminal notification (error or complete,
\* never both); after the terminal notification the EventSource is closed and
\* the observer receives nothing more; a transport error on an open
\* subscription is notified as error; a second unsubscribe has no effect.
C20_OneTerminalNotification ==
  /\ Cardinality(Terminals(received)) <= 1
  /\ \A i \in Terminals(received) : i = Len(received) /\ eventSource = "closed"
  /\ \A o \in Observers :
       LET E == OnError(CurSub, o)
       IN  /\ ~closedFlag => E.received[Len(received) + 1] = <<"error", "">>
           /\ Unsubscribe(Unsubscribe(CurSub)) = Unsubscribe(CurSub)
           /\ Unsubscribe(E) = E

\* the message notifications whose data decodes to an object, in order
DecodableMessages(notes) ==
  SelectSeq(notes, LAMBDA n :
    n[1] = "message" /\ ~ParseThrows(n[2]) /\ JSONParse(n[2]).kind = "obj")

OfKind(out, kind) == SelectSeq(out, LAMBDA x : x.kind = kind)

\* C21: the standard pipeline over the notifications of a subscription hands
\* its subscriber exactly the decoded payloads of the message events whose data
\* decodes to a non-null object, in arrival order; open events and messages
\* that do not decode to an object are dropped and give rise to no error
\* notification.
C21_PipelineDeliversPayloads ==
  LET out == Piped(StandardPipeline, received)
      want == DecodableMessages(received)
  IN  /\ Len(OfKind(out, "next")) = Len(want)
      /\ \A i \in 1..Len(want) :
           OfKind(out, "next")[i].val = [tag |-> "json", payload |-> JSONParse(want[i][2])]
      /\ Len(OfKind(out, "error")) = Len(SelectSeq(received, LAMBDA n : n[1] = "error"))

\* an open event, a message that decodes to null and a message with an object
\* have arrived: one payload is delivered
C21_Witness ==
  /\ \E i \in 1..Len(received) : received[i][1] = "open"
  /\ \E i \in 1..Len(received) : received[i] = <<"message", "null">>
  /\ \E i \in 1..Len(received) : received[i] = <<"message", JSONStringify(ShutdownPayload)>>
  /\ Len(OfKind(Piped(StandardPipeline, received), "next")) = 1

\* the responses of the records of cs that are not ended, in the Map's order
LiveTargets(cs) ==
  LET live == SelectSeq(cs, LAMBDA e : IsHandle(e.res) /\ ~ended[e.res])
  IN  [i \in 1..Len(live) |-> live[i].res]

\* the targets of the write attempts of a call, in the order they were made
AttemptTargets(R) ==
  LET w == SelectSeq(R.events, LAMBDA x : x[1] \in {"write", "writeFail"})
  IN  [i \in 1..Len(w) |-> w[i][2]]

\* C22: in a broadcast every write attempt precedes every termination and every
\* deletion (the records whose write failed are removed after the loop), and the
\* writes are attempted on the records in the insertion order of the registry.
C22_BroadcastDefersRemoval ==
  \A p \in ClaimPayloads, wf \in AnyFaults, ef \in AnyFaults :
    LET R == broadcast(Cur, p, wf, ef)
    IN  /\ \A i \in WriteAttempts(R), j \in (1..Len(R.events)) \ WriteAttempts(R) : i < j
        /\ AttemptTargets(R) = LiveTargets(clients)

\* a broadcast to two records of two responses, the write of the first failing:
\* the second is written before the first is ended and deleted
C22_Witness ==
  /\ Len(clients) = 2 /\ clients[1].res # clients[2].res
  /\ LET R == broadcast(Cur, ShutdownPayload, {clients[1].res}, {})
     IN  /\ Len(R.events) >= 4
         /\ R.events[1][1] = "writeFail" /\ R.events[1][2] = clients[1].res
         /\ R.events[2][1] = "write" /\ R.events[2][2] = clients[2].res
         /\ R.events[3][1] = "end" /\ R.events[3][2] = clients[1].res
         /\ getClientCount(R) = 1

\* C23: when a registered response emits close, the close callback attached at
\* registration runs exactly once for it (one removal attempt), whatever
\* registrations were made on that response before.
C23_CloseCallbackOnce ==
  \A h \in Handles, ef \in AnyFaults :
    LET R == EmitClose(Cur, h, ef)
    IN  /\ listeners[h] <= 1
        /\ Cardinality(EventsOn(R, "listener", h)) <= 1

\* the call that left R has added no record and changed none
NothingAdded(R) == RecordSet(R.clients) \subseteq RecordSet(clients)

\* no call of an operation other than addClient adds or changes a record
NoCallAdds ==
  /\ \A h \in Handles, ef \in AnyFaults :
       /\ NothingAdded(removeClient(Cur, h, ef))
       /\ NothingAdded(EmitClose(Cur, h, ef))
  /\ \A id \in KnownIds, ef \in AnyFaults : NothingAdded(removeClientById(Cur, id, ef))
  /\ \A p \in ClaimPayloads, wf \in AnyFaults, ef \in AnyFaults :
       /\ NothingAdded(broadcast(Cur, p, wf, ef))
       /\ NothingAdded(broadcastAndClose(Cur, p, wf, ef))
       /\ \A h \in Handles : NothingAdded(send(Cur, h, p, wf, ef))
       /\ \A id \in KnownIds : NothingAdded(sendToClient(Cur, id, p, wf, ef))
  /\ \A m \in MaxAges, ef \in AnyFaults :
       NothingAdded(cleanupStaleClients(Cur, m, now, ef))

\* C24: addClient is the only operation that adds a record: removeClient,
\* removeClientById, send, sendToClient, broadcast, broadcastAndClose,
\* cleanupStaleClients and a close event leave the set of records, and so the
\* set of registered ids, unchanged or smaller; a removed id stays absent until
\* an addClient uses it (every step that is not a registration keeps the ids
\* within those it found).
C24_NoResurrection ==
  /\ []NoCallAdds
  /\ [][regs' = regs => MapKeys(clients') \subseteq MapKeys(clients)]_vars

\* of two registered ids one is removed and the other stays
C24_Witness ==
  /\ Len(clients) = 2
  /\ \E id \in MapKeys(clients), ef \in AnyFaults :
       LET R == removeClientById(Cur, id, ef)
       IN  MapKeys(R.clients) = MapKeys(clients) \ {id} /\ getClientCount(R) = 1

\* the registry part of a result: forward map, reverse index, ended flags
Registry(R) == <<R.clients, R.resIndex, R.ended>>

\* C25: removeClient(res) is equivalent to removeClientById(resIndex.get(res)):
\* when the response has a reverse-index entry the two calls leave the same
\* forward map, the same reverse index and the same ended flags; when it has
\* none, removeClient(res) changes nothing.
C25_RemoveIsRemoveById ==
  \A h \in Handles, ef \in AnyFaults :
    IF resIndex[h] # Absent
    THEN Registry(removeClient(Cur, h, ef)) = Registry(removeClientById(Cur, resIndex[h], ef))
    ELSE Registry(removeClient(Cur, h, ef)) = Registry(Cur)

\* C26: the reverse index agrees with the forward map: resIndex.get(h) = id
\* implies a record for id exists and its response is h, and the response of
\* every record maps back to that record's id.
C26_ReverseIndexAgrees ==
  /\ \A h \in Handles :
       resIndex[h] # Absent =>
         \E i \in 1..Len(clients) : clients[i].id = resIndex[h] /\ clients[i].res = h
  /\ \A i \in 1..Len(clients) :
       IsHandle(clients[i].res) => resIndex[clients[i].res] = clients[i].id

\* the call that left R ended no response other than h and removed no record
\* of another response
TouchesOnly(R, h) ==
  /\ \A g \in Handles \ {h} : R.ended[g] = ended[g]
  /\ \A i \in 1..Len(clients) :
       clients[i].res # h => clients[i] \in RecordSet(R.clients)

\* C27: a close event of a response h, or removeClient(h), never ends a
\* response other than h and never removes a record whose response is not h,
\* also when the id of h has since been registered with a newer response.
C27_RemoveTouchesOnlyItsHandle ==
  \A h \in Handles, ef \in AnyFaults :
    /\ TouchesOnly(removeClient(Cur, h, ef), h)
    /\ TouchesOnly(EmitClose(Cur, h, ef), h)

\* the callbacks of the controller that are pending in the current state: a
\* tick and the request's close for every armed interval, the close event of
\* every response that has not emitted it
PendingCallbacks ==
  {<<"tick", h>> : h \in {g \in Handles : timer[g] = "armed"}}
    \cup {<<"reqClose", h>> : h \in {g \in Handles : timer[g] = "armed"}}
    \cup {<<"resClose", h>> : h \in {g \in Handles : ~closed[g]}}

\* one pending callback runs
RunCallback(S, cb, wf, ef) ==
  IF cb[1] = "tick" THEN send(S, cb[2], TimePayload(now), wf, ef)
  ELSE IF cb[1] = "reqClose" THEN removeClient(S, cb[2], ef)
  ELSE EmitClose(S, cb[2], ef)

\* the callbacks still pending after cb ran: the interval ticks until the
\* request's close clears it, a close event happens once
StillPending(P, cb) ==
  IF cb[1] = "tick" THEN P
  ELSE IF cb[1] = "reqClose" THEN P \ {cb, <<"tick", cb[2]>>}
  ELSE P \ {cb}

RECURSIVE Drained(_, _, _, _, _)
\* the results of running up to n of the pending callbacks P, in every order
Drained(S, P, n, wf, ef) ==
  {S} \cup (IF n = 0 THEN {}
            ELSE UNION {Drained(RunCallback(S, cb, wf, ef), StillPending(P, cb), n - 1, wf, ef)
                          : cb \in P})

\* no response has been written to after it was ended in the run R
NothingAfterEnd(R) ==
  \A h \in Handles : \A i \in EventsOn(R, "end", h), j \in AttemptsOn(R, h) : j < i

\* none of the operations of the time feed raises in the current state
NoOperationRaises ==
  /\ \A h \in Handles, wf \in AnyFaults, ef \in AnyFaults :
       /\ ~send(Cur, h, TimePayload(now), wf, ef).exc
       /\ ~removeClient(Cur, h, ef).exc
       /\ ~EmitClose(Cur, h, ef).exc
       /\ \A sid \in ExplicitIds :
            Fresh(h) =>
              ~send(addClient(Cur, sid, h, now, Undefined, TRUE), h, TimePayload(now), wf, ef).exc
  /\ \A id \in KnownIds, ef \in AnyFaults : ~removeClientById(Cur, id, ef).exc
  /\ \A p \in ClaimPayloads, wf \in AnyFaults, ef \in AnyFaults :
       ~broadcast(Cur, p, wf, ef).exc /\ ~broadcastAndClose(Cur, p, wf, ef).exc
  /\ \A m \in MaxAges, ef \in AnyFaults : ~cleanupStaleClients(Cur, m, now, ef).exc

\* C28: in every state the interleavings of the time feed reach, no operation
\* raises, and when broadcastAndClose runs and pending ticks and close events
\* are then processed in any order, none of them raises, the registry stays
\* empty, and no response the shutdown ended is written to afterwards.
C28_ShutdownRaceIsSafe ==
  /\ NoOperationRaises
  /\ \A wf \in AnyFaults, ef \in AnyFaults :
       LET R0 == broadcastAndClose(Cur, ShutdownPayload, wf, ef)
       IN  \A R \in Drained(R0, PendingCallbacks, DrainDepth, wf, ef) :
             /\ ~R.exc
             /\ getClientCount(R) = 0
             /\ NothingAfterEnd(R)

\* the shutdown ends a response whose interval is armed, and the tick that
\* follows writes nothing
C28_Witness ==
  \E h \in Handles :
    /\ timer[h] = "armed" /\ ~ended[h] /\ Len(clients) = 2
    /\ LET R0 == broadcastAndClose(Cur, ShutdownPayload, {}, {})
           R  == RunCallback(R0, <<"tick", h>>, {}, {})
       IN  /\ EventsOn(R0, "end", h) # {}
           /\ R \in Drained(R0, PendingCallbacks, DrainDepth, {}, {})
           /\ R.events = R0.events

ShutdownFrame == formatSSEMessage(ShutdownPayload)

\* in the run R every attempt to end a response comes after a write of the
\* shutdown frame on that response
WrittenBeforeEnd(R) ==
  \A h \in Handles : \A i \in EndAttemptsOn(R, h) :
    \E j \in AttemptsOn(R, h) : j < i /\ R.events[j][3] = ShutdownFrame

RECURSIVE Dispatched(_)
\* the browser dispatches all that waits in the page's connection
Dispatched(pg) ==
  IF pg.state = "closed" \/ pg.inbox = <<>> THEN pg
  ELSE IF Head(pg.inbox) = Eof
       THEN [pg EXCEPT !.state = "connecting", !.handle = "none", !.inbox = <<>>]
  ELSE Dispatched(handleTimeEvent([pg EXCEPT !.inbox = Tail(@)], Head(pg.inbox)))

\* the shutdown hook runs in the current state
ShutdownReachesClients ==
  \A wf \in AnyFaults, ef \in AnyFaults :
    LET R == broadcastAndClose(Cur, ShutdownPayload, wf, ef) IN
    /\ WrittenBeforeEnd(R)
    /\ \A i \in 1..Len(clients) :
         ~ended[clients[i].res] =>
           /\ AttemptsOn(R, clients[i].res) # {}
           /\ EndAttemptsOn(R, clients[i].res) # {}
    /\ \A h \in Handles \ wf :
         (page.handle = h /\ page.state \in {"connecting", "open"}
            /\ HasRecord(clients, h) /\ ~ended[h]) =>
           LET pg == Dispatched(Deliver(page, R.events))
           IN  pg.state = "closed" /\ pg.attempts = page.attempts

WritesOnlyToLive(R) ==
  /\ NothingAfterEnd(R)
  /\ \A h \in Handles : ended[h] => AttemptsOn(R, h) = {}

\* C30: no operation of the helper writes to a response whose writableEnded is
\* set: in every state the operations reach, each write of addClient, send,
\* sendToClient, broadcast, broadcastAndClose, removeClient, removeClientById,
\* cleanupStaleClients and the close listener is on a response that is not
\* ended at that moment.
C30_NoWriteAfterEnd ==
  /\ \A h \in Handles, ef \in AnyFaults :
       /\ WritesOnlyToLive(removeClient(Cur, h, ef))
       /\ WritesOnlyToLive(EmitClose(Cur, h, ef))
       /\ \A id \in ExplicitIds, att \in BOOLEAN :
            WritesOnlyToLive(addClient(Cur, id, h, now, Undefined, att))
       /\ \A r \in Suffixes, att \in BOOLEAN :
            WritesOnlyToLive(addClient(Cur, h, Undefined, now, r, att))
  /\ \A id \in KnownIds, ef \in AnyFaults : WritesOnlyToLive(removeClientById(Cur, id, ef))
  /\ \A p \in ClaimPayloads, wf \in AnyFaults, ef \in AnyFaults :
       /\ WritesOnlyToLive(broadcast(Cur, p, wf, ef))
       /\ WritesOnlyToLive(broadcastAndClose(Cur, p, wf, ef))
       /\ \A h \in Handles : WritesOnlyToLive(send(Cur, h, p, wf, ef))
       /\ \A id \in KnownIds : WritesOnlyToLive(sendToClient(Cur, id, p, wf, ef))
  /\ \A m \in MaxAges, ef \in AnyFaults :
       WritesOnlyToLive(cleanupStaleClients(Cur, m, now, ef))

\* the registry holds an ended response and a live one, and a broadcast writes
\* to the live one only
C30_Witness ==
  \E i, j \in 1..Len(clients) :
    /\ ended[clients[i].res] /\ ~ended[clients[j].res]
    /\ LET R == broadcast(Cur, ShutdownPayload, {}, {})
       IN  /\ AttemptsOn(R, clients[i].res) = {}
           /\ AttemptsOn(R, clients[j].res) # {}

\* the run R is consistent: nothing escaped, no response whose end() works had
\* end() called twice, no id was deleted twice
NestedConsistent(R, ef) ==
  /\ ~R.exc
  /\ \A h \in Handles \ ef : Cardinality(EndAttemptsOn(R, h)) <= 1
  /\ \A id \in MapKeys(clients) :
       Cardinality({i \in EventsOf(R, "delete") : R.events[i][2] = id}) <= 1

\* the record of id is removed in R, and its live response ended
RemovedIn(R, id, ef) ==
  LET h == MapGet(clients, id).res IN
  /\ ~MapHas(R.clients, id)
  /\ Cardinality({i \in EventsOf(R, "delete") : R.events[i][2] = id}) = 1
  /\ (~ended[h] /\ h \notin ef) => R.ended[h] /\ Cardinality(EndAttemptsOn(R, h)) = 1

\* C31: when end() emits close synchronously, the removal nested in
\* removeClient, removeClientById, a failed send, the removal pass of broadcast
\* or broadcastAndClose leaves the registry consistent: the record is removed
\* exactly once, end() is called at most once on a response, nothing is
\* thrown, and the other records are all still processed.
C31_NestedRemovalIsConsistent ==
  syncClose =>
    \A ef \in AnyFaults :
      /\ \A h \in Handles :
           LET R == removeClient(Cur, h, ef) IN
           /\ NestedConsistent(R, ef)
           /\ (Truthy(WeakGet(resIndex, h)) /\ MapHas(clients, resIndex[h])) =>
                RemovedIn(R, resIndex[h], ef)
      /\ \A id \in MapKeys(clients) :
           LET R == removeClientById(Cur, id, ef) IN
           NestedConsistent(R, ef) /\ RemovedIn(R, id, ef)
      /\ \A p \in ClaimPayloads, wf \in AnyFaults :
           /\ \A h \in wf :
                LET R == send(Cur, h, p, wf, ef) IN
                /\ NestedConsistent(R, ef)
                /\ (~ended[h] /\ h \notin ef) => R.ended[h]
           /\ LET R == broadcast(Cur, p, wf, ef) IN
              /\ NestedConsistent(R, ef)
              /\ \A i \in 1..Len(clients) :
                   LET h == clients[i].res IN
                   /\ ~ended[h] => AttemptsOn(R, h) # {}
                   /\ (ended[h] \/ h \in wf) => ~MapHas(R.clients, clients[i].id)
                   /\ (~ended[h] /\ h \notin wf) => MapHas(R.clients, clients[i].id)
           /\ LET R == broadcastAndClose(Cur, p, wf, ef) IN
              /\ NestedConsistent(R, ef)
              /\ getClientCount(R) = 0
              /\ \A i \in 1..Len(clients) :
                   LET h == clients[i].res IN
                   ~ended[h] => AttemptsOn(R, h) # {} /\ EndAttemptsOn(R, h) # {}

\* C32: with a record in the registry whose response is missing or whose res
\* throws on access, broadcast and broadcastAndClose do not raise, still
\* write the message to every other live record, and broadcastAndClose leaves
\* getClientCount() = 0.
C32_BroadcastSurvivesCorruption ==
  (\E i \in 1..Len(clients) : clients[i].res \in CorruptKinds) =>
    \A p \in ClaimPayloads, wf \in AnyFaults, ef \in AnyFaults :
      LET B == broadcast(Cur, p, wf, ef)
          A == broadcastAndClose(Cur, p, wf, ef)
      IN  /\ ~B.exc
          /\ ~A.exc
          /\ getClientCount(A) = 0
          /\ \A i \in 1..Len(clients) :
               (IsHandle(clients[i].res) /\ ~ended[clients[i].res]) =>
                 /\ AttemptsOn(B, clients[i].res) # {}
                 /\ AttemptsOn(A, clients[i].res) # {}

\* C33: shutdown() runs the shutdown hooks, and so the shutdown broadcast, at
\* most once: a call made while shutdownInProgress is set, be the first call
\* still awaiting the hooks or finished, returns without running a hook.
C33_HooksRunAtMostOnce ==
  /\ [](app.hookRuns + Cardinality({c \in 1..MaxShutdownCalls : app.calls[c] = "awaitHooks"}) <= 1)
  /\ [][\A c \in 1..MaxShutdownCalls :
          (app.shutdownInProgress /\ app.calls[c] = "idle" /\ app'.calls[c] # "idle") =>
            (app'.calls[c] = "returned" /\ app'.hookRuns = app.hookRuns)]_vars

\* one call has run the hooks and finished, another has returned at once
C33_Witness ==
  /\ app.hookRuns = 1
  /\ \E c, d \in 1..MaxShutdownCalls : app.calls[c] = "done" /\ app.calls[d] = "returned"
  /\ clients = <<>>

\* the first n elements of a sequence
FirstN(q, n) == SubSeq(q, 1, IF Len(q) < n THEN Len(q) ELSE n)

\* C34: take(n) over createSSEObservable, and over a source that emits the
\* same values inside subscribe, forwards exactly the first n values in order,
\* then delivers complete exactly once, unsubscribes from the source, forwards
\* nothing after it, and throws nothing.
C34_TakeFirstNThenComplete ==
  observer \in {"take1", "take2"} =>
    LET n == TakeCount(observer)
        D == take(received, n)
        T == takeSync(NextNotes(received), n)
    IN  /\ NextNotes(D) = FirstN(NextNotes(received), n)
        /\ Cardinality({i \in 1..Len(D) : D[i][1] = "complete"}) <= 1
        /\ ~T.threw
        /\ Len(NextNotes(received)) >= n =>
             /\ D = Append(FirstN(NextNotes(received), n), <<"complete", "">>)
             /\ T.out = D
             /\ closedFlag

\* the notifications of rs for which the function dataIsObject throws
ThrowingNotes(rs) ==
  SelectSeq(rs, LAMBDA r : r[1] \in {"open", "message"} /\ Apply("dataIsObject", SSEValue(r)).threw)

\* C35: when the function given to map, filter or tap throws for a value, what
\* it throws is handed to the error callback of the observer downstream, and
\* the stream is terminated by that error: no next is delivered to that
\* observer afterwards.
C35_OperatorErrorTerminates ==
  \A op \in {"map", "filter", "tap"} :
    LET out == Piped(<<Stage(op, "dataIsObject")>>, received)
    IN  /\ Len(OfKind(out, "error")) >=  Len(ThrowingNotes(received))
        /\ \A i, j \in 1..Len(out) :
             (i < j /\ out[i].kind = "error") => out[j].kind # "next"

\* the operators examined: every operator with every function of its kind
Predicates == {"isMessage", "isOk", "true", "dataIsObject", "boom"}
Functions == {"parseSSEData", "payload", "identity", "dataIsObject", "boom"}
Operators ==
  {Stage("filter", f) : f \in Predicates} \cup
  {Stage(op, f) : op \in {"map", "tap"}, f \in Functions}
OperatorLists ==
  {<<>>, StandardPipeline} \cup {<<a>> : a \in Operators}
    \cup {<<a, b>> : a \in Operators, b \in Operators}

\* C36: pipe composes the operators left to right and is equivalent to method
\* chaining: for the notifications a source has delivered and every list of
\* operators made by map, filter and tap, pipe(op1, ..., opk)(source) hands its
\* subscriber the same next, error and complete notifications as
\* source.op1(...)...opk(...) of the monolithic client, and pipe()(source) is
\* the source.
C36_PipeIsChaining ==
  LET source == SourceNotes(received) IN
  /\ pipe(<<>>, source) = source
  /\ \A ops \in OperatorLists : pipe(ops, source) = Chained(source, ops)

\* an open event and two messages have arrived, and the order of two operators
\* matters for what the subscriber gets
C36_Witness ==
  /\ Len(received) = 3
  /\ LET source == SourceNotes(received)
         ab == <<Stage("filter", "isMessage"), Stage("tap", "dataIsObject")>>
         ba == <<Stage("tap", "dataIsObject"), Stage("filter", "isMessage")>>
     IN  /\ pipe(ab, source) # pipe(ba, source)
         /\ pipe(ab, source) = Chained(source, ab)
         /\ \E i \in 1..Len(pipe(ab, source)) : pipe(ab, source)[i].kind = "next"

====
